---- MODULE Spec2Model ----
(***************************************************************************)
(* SafeCircle backend: the presence registry (activeUsers), the SOS        *)
(* trigger on its two paths (REST POST /api/sos/trigger and the socket     *)
(* event 'sos_alert'), the per-contact notification tasks, and the alert   *)
(* resolution route.                                                       *)
(*                                                                         *)
(* A JavaScript handler runs atomically between two awaits.  The trigger   *)
(* handlers are split where the claims need the interleaving: the start of *)
(* the handler (validation, inserts, launch of the per-contact tasks), the *)
(* settling of each provider call of each task, and the answer to the      *)
(* caller.  The store (Supabase) is modelled as reliable.                  *)
(*                                                                         *)
(* Location sharing: the relationships that grant a view of a location     *)
(* (user_connections, family_members, location_permissions), the helper    *)
(* checkLocationPermission behind GET /api/locations/user/:userId, and the *)
(* socket event 'location_update' with its fan-out.  The connection        *)
(* request is split between its existence check and its insert, the two    *)
(* awaited queries of the route.                                           *)
(***************************************************************************)
EXTENDS Integers, Sequences, FiniteSets, TLC

VARIABLES
    emergency_contacts, \* owner -> rows of emergency_contacts, ordered by priority
    fcm_token,          \* users.fcm_token: user -> TRUE when a token is stored
    connected,          \* sockets with an open connection
    socketUserId,       \* socket.userId of each socket
    activeUsers,        \* the Map userId -> socketId
    sos_alerts,         \* rows of sos_alerts, the row id is the index
    dispatch,           \* per alert: the trigger handler that created it
    sos_notifications,  \* rows of sos_notifications
    attempts,           \* delivery attempts made towards the providers/sockets
    resolutionPushes,   \* user -> number of 'sos_resolved' pushes sent to it
    reply,              \* the last answer of a handler that has no dispatch
    now,                \* the clock read by new Date()
    user_connections,   \* rows of user_connections, the row id is the index
    connRequests,       \* connection requests between their check and insert
    family_members,     \* rows of family_members
    location_permissions, \* rows of location_permissions
    user_locations,     \* rows of user_locations, the row id is the index
    location_updated    \* 'location_updated' events emitted to sockets

vars == <<emergency_contacts, fcm_token, connected, socketUserId, activeUsers,
          sos_alerts, dispatch, sos_notifications, attempts, resolutionPushes,
          reply, now, user_connections, connRequests, family_members,
          location_permissions, user_locations, location_updated>>

(***************************************************************************)
(* Bounds of the model and the small input sets.                           *)
(***************************************************************************)
MaxContacts == 2
MaxTime == 2
MaxConnections == 2
MaxPermissions == 2

NULL == "null"
Users == {"u1", "u2", "u3"}
\* the two users the relationships and the SOS trigger are followed on
Pair == {"u1", "u2"}
Owners == {"u1"}
Sockets == {"s1", "s2"}
\* the connection the SOS trigger is followed on
SosSockets == {"s1"}
Phones == {"+234"}
\* the rows of sos_alerts the model follows.  The dispatches of two alerts
\* share nothing but the configuration they read, so one alert-creating
\* trigger is followed in full detail; rejected triggers are not limited.
AlertIds == {1}
\* an optional number: <<>> is a field the request does not carry
LatInputs == {<<>>, <<0>>, <<6>>}
LonInputs == {<<>>, <<3>>}

\* axios.post to FCM resolves, rejects, or never settles (no timeout is set)
PushOutcomes == {"ok", "fail", "hang"}
\* the SMS provider behind sendSMS delivers or fails
SmsOutcomes == {"ok", "fail"}

Families == {"f1"}
\* the rows of user_locations the model follows
LocationIds == {1}
\* expires_at of a permission: none, or the time 2
ExpiryInputs == {<<>>, <<2>>}

NoAnswer == [kind |-> "none", notificationsSent |-> 0, totalContacts |-> 0]
NoReply == [op |-> "none", status |-> 0, error |-> "none"]

Init ==
    /\ emergency_contacts = [u \in Users |-> <<>>]
    /\ fcm_token = [u \in Users |-> FALSE]
    /\ connected = {}
    /\ socketUserId = [s \in Sockets |-> NULL]
    /\ activeUsers = [u \in Users |-> NULL]
    /\ sos_alerts = <<>>
    /\ dispatch = <<>>
    /\ sos_notifications = {}
    /\ attempts = {}
    /\ resolutionPushes = [u \in Users |-> 0]
    /\ reply = NoReply
    /\ now = 1
    /\ user_connections = <<>>
    /\ connRequests = {}
    /\ family_members = {}
    /\ location_permissions = <<>>
    /\ user_locations = <<>>
    /\ location_updated = {}

sosVars == <<sos_alerts, dispatch, sos_notifications, attempts,
             resolutionPushes, reply, now>>
presenceVars == <<connected, socketUserId, activeUsers>>
relationVars == <<user_connections, connRequests, family_members,
                  location_permissions>>
locationVars == <<relationVars, user_locations, location_updated>>

(***************************************************************************)
(* Configuration: emergency contacts and push tokens.                      *)
(***************************************************************************)
\* POST /api/emergency-contacts: name and phone are required, the contact
\* is not the owner, contact_user_id is optional
AddContact(owner, cu, phone) ==
    /\ Len(emergency_contacts[owner]) < MaxContacts
    /\ cu # owner
    /\ emergency_contacts' = [emergency_contacts EXCEPT ![owner] =
           Append(@, [contact_user_id |-> cu, contact_phone |-> phone])]
    /\ UNCHANGED <<fcm_token, presenceVars, sosVars, locationVars>>

\* POST /api/auth/update-fcm-token
UpdateFcmToken(u) ==
    /\ ~fcm_token[u]
    /\ fcm_token' = [fcm_token EXCEPT ![u] = TRUE]
    /\ UNCHANGED <<emergency_contacts, presenceVars, sosVars, locationVars>>

(***************************************************************************)
(* Presence registry.                                                      *)
(***************************************************************************)
\* io.on('connection')
Connect(s) ==
    /\ s \notin connected
    /\ connected' = connected \cup {s}
    /\ socketUserId' = [socketUserId EXCEPT ![s] = NULL]
    /\ UNCHANGED <<activeUsers, emergency_contacts, fcm_token, sosVars, locationVars>>

JoinDisplaces(s, u) ==
    /\ s \in connected
    /\ activeUsers' = [w \in Users |->
                          IF w = u THEN s
                          ELSE IF activeUsers[w] = s THEN NULL
                          ELSE activeUsers[w]]
    /\ socketUserId' = [socketUserId EXCEPT ![s] = u]
    /\ UNCHANGED <<connected, emergency_contacts, fcm_token, sosVars, locationVars>>

JoinKeepsFirst(s, u) ==
    /\ s \in connected
    /\ activeUsers' = IF activeUsers[u] = NULL
                      THEN [activeUsers EXCEPT ![u] = s]
                      ELSE activeUsers
    /\ socketUserId' = [socketUserId EXCEPT ![s] = u]
    /\ UNCHANGED <<connected, emergency_contacts, fcm_token, sosVars, locationVars>>

\* socket.on('join')
Join(s, u) ==
    /\ s \in connected
    /\ activeUsers' = [activeUsers EXCEPT ![u] = s]
    /\ socketUserId' = [socketUserId EXCEPT ![s] = u]
    /\ UNCHANGED <<connected, emergency_contacts, fcm_token, sosVars, locationVars>>

DisconnectClearsRegistry(s) ==
    /\ s \in connected
    /\ connected' = connected \ {s}
    /\ activeUsers' = IF socketUserId[s] # NULL
                      THEN [activeUsers EXCEPT ![socketUserId[s]] = NULL]
                      ELSE [u \in Users |-> NULL]
    /\ UNCHANGED <<socketUserId, emergency_contacts, fcm_token, sosVars, locationVars>>

\* socket.on('disconnect')
Disconnect(s) ==
    /\ s \in connected
    /\ connected' = connected \ {s}
    /\ activeUsers' = IF socketUserId[s] # NULL
                      THEN [activeUsers EXCEPT ![socketUserId[s]] = NULL]
                      ELSE activeUsers
    /\ UNCHANGED <<socketUserId, emergency_contacts, fcm_token, sosVars, locationVars>>

(***************************************************************************)
(* SOS trigger: pure helpers.                                              *)
(***************************************************************************)
FalsyOnlyZero(x) == x # <<>> /\ x[1] = 0

\* JavaScript !x for an optional number: undefined and 0 are both falsy
Falsy(x) == x = <<>> \/ x[1] = 0

NewAlertResolved(u, lat, lon) ==
    [user_id |-> u, status |-> "resolved", resolved_at |-> 0]

\* the row a trigger inserts into sos_alerts
NewAlert(u, lat, lon) ==
    [user_id |-> u, status |-> "active", resolved_at |-> 0]

\* a per-contact task when contacts.map starts it
NewTask(c) ==
    [pc |-> IF c.contact_user_id # NULL THEN "push" ELSE "sms",
     notificationType |-> "sms", isDelivered |-> FALSE]

Settled == {"fulfilled", "rejected"}

Attempt(a, i, channel, outcome) ==
    [alert |-> a, contact |-> i, channel |-> channel, outcome |-> outcome]

\* a row of sos_notifications
Notification(a, i, c, type, delivered) ==
    [sos_alert_id |-> a, contact |-> i,
     recipient_user_id |-> c.contact_user_id,
     recipient_phone |-> c.contact_phone,
     notification_type |-> type, is_delivered |-> delivered]

\* a catch block that rethrows without logging the failed notification
RestCatchRecordDropped(a, i, c, t) == {}

\* the insert of the catch block of sendSOSNotification
RestCatchRecord(a, i, c, t) ==
    {Notification(a, i, c, t.notificationType, FALSE)}

RestTryRecordUndelivered(a, i, c, type, delivered) ==
    {Notification(a, i, c, type, FALSE)}

\* the insert at the end of the try block of sendSOSNotification
RestTryRecord(a, i, c, type, delivered) ==
    {Notification(a, i, c, type, delivered)}

\* notificationResults.filter(r => r.status === 'fulfilled').length
SuccessCount(tasks) ==
    Cardinality({i \in DOMAIN tasks : tasks[i].pc = "fulfilled"})

\* Promise.allSettled: every task has settled
AllSettled(tasks) == \A i \in DOMAIN tasks : tasks[i].pc \in Settled

\* Promise.all: rejected by the first rejection, fulfilled once all are
PromiseAllRejected(tasks) == \E i \in DOMAIN tasks : tasks[i].pc = "rejected"
PromiseAllFulfilled(tasks) == \A i \in DOMAIN tasks : tasks[i].pc = "fulfilled"

\* the contacts whose user is in the registry: activeUsers.get(...) is set
Present(cs) ==
    {i \in DOMAIN cs : /\ cs[i].contact_user_id # NULL
                       /\ activeUsers[cs[i].contact_user_id] # NULL}

\* the io.to(targetSocketId).emit('sos_received') calls a socket trigger
\* makes while contacts.map starts the tasks
LiveEmits(a, cs) == {Attempt(a, i, "live", "ok") : i \in Present(cs)}

\* the dispatch a trigger on the given path starts for the contacts cs: one
\* task per contact; without contacts the REST route answers 'no contacts'
\* and Promise.all([]) of the socket handler fulfils at once
StartDispatch(path, cs) ==
    [path |-> path, contacts |-> cs, present |-> Present(cs),
     tasks |-> [i \in DOMAIN cs |-> NewTask(cs[i])],
     answer |-> IF Len(cs) = 0
                THEN [kind |-> IF path = "rest" THEN "no_contacts" ELSE "sos_sent",
                      notificationsSent |-> 0, totalContacts |-> 0]
                ELSE NoAnswer]

SetTaskFailFast(a, i, t) ==
    [dispatch EXCEPT ![a].tasks =
        [j \in DOMAIN dispatch[a].tasks |->
            IF j = i THEN t
            ELSE IF t.pc = "rejected" /\ dispatch[a].tasks[j].pc \notin Settled
            THEN [dispatch[a].tasks[j] EXCEPT !.pc = "rejected"]
            ELSE dispatch[a].tasks[j]]]

SetTask(a, i, t) == [dispatch EXCEPT ![a].tasks[i] = t]

(***************************************************************************)
(* REST POST /api/sos/trigger                                              *)
(***************************************************************************)
RestTrigger(u, lat, lon) ==
    IF Falsy(lat) \/ Falsy(lon)
    THEN /\ reply' = [op |-> "trigger", status |-> 400,
                      error |-> "Location coordinates required"]
         /\ UNCHANGED <<emergency_contacts, fcm_token, presenceVars, locationVars, sos_alerts,
                        dispatch, sos_notifications, attempts,
                        resolutionPushes, now>>
    ELSE /\ Len(sos_alerts) + 1 \in AlertIds
         /\ sos_alerts' = Append(sos_alerts, NewAlert(u, lat, lon))
         /\ dispatch' = Append(dispatch,
                               StartDispatch("rest", emergency_contacts[u]))
         /\ UNCHANGED <<emergency_contacts, fcm_token, presenceVars, locationVars,
                        sos_notifications, attempts, resolutionPushes, reply, now>>

\* sendSOSNotification up to the end of the push branch
RestPushStage(a, i, o) ==
    /\ a \in DOMAIN dispatch
    /\ dispatch[a].path = "rest"
    /\ i \in DOMAIN dispatch[a].tasks
    /\ dispatch[a].tasks[i].pc = "push"
    /\ LET c == dispatch[a].contacts[i]
           t == dispatch[a].tasks[i] IN
       IF fcm_token[c.contact_user_id]
       THEN /\ attempts' = attempts \cup {Attempt(a, i, "push", o)}
            /\ CASE o = "ok" ->
                      /\ dispatch' = SetTask(a, i, [pc |-> "sms",
                             notificationType |-> "push", isDelivered |-> TRUE])
                      /\ UNCHANGED sos_notifications
                 [] o = "fail" ->
                      /\ dispatch' = SetTask(a, i, [t EXCEPT !.pc = "rejected"])
                      /\ sos_notifications' =
                             sos_notifications \cup RestCatchRecord(a, i, c, t)
                 [] OTHER ->
                      /\ dispatch' = SetTask(a, i, [t EXCEPT !.pc = "hung"])
                      /\ UNCHANGED sos_notifications
       ELSE /\ o = "ok"
            /\ dispatch' = SetTask(a, i, [t EXCEPT !.pc = "sms"])
            /\ UNCHANGED <<attempts, sos_notifications>>
    /\ UNCHANGED <<emergency_contacts, fcm_token, presenceVars, locationVars, sos_alerts,
                   resolutionPushes, reply, now>>

\* sendSOSNotification from "Always send SMS as backup" to its return or throw
RestSmsStage(a, i, o) ==
    /\ a \in DOMAIN dispatch
    /\ dispatch[a].path = "rest"
    /\ i \in DOMAIN dispatch[a].tasks
    /\ dispatch[a].tasks[i].pc = "sms"
    /\ LET c == dispatch[a].contacts[i]
           t == dispatch[a].tasks[i] IN
       IF c.contact_phone # NULL
       THEN /\ attempts' = attempts \cup {Attempt(a, i, "sms", o)}
            /\ IF o = "ok"
               THEN /\ dispatch' = SetTask(a, i, [t EXCEPT !.pc = "fulfilled",
                                                  !.isDelivered = TRUE])
                    /\ sos_notifications' = sos_notifications \cup
                           RestTryRecord(a, i, c, t.notificationType, TRUE)
               ELSE /\ dispatch' = SetTask(a, i, [t EXCEPT !.pc = "rejected"])
                    /\ sos_notifications' =
                           sos_notifications \cup RestCatchRecord(a, i, c, t)
       ELSE /\ o = "ok"
            /\ dispatch' = SetTask(a, i, [t EXCEPT !.pc = "fulfilled"])
            /\ sos_notifications' = sos_notifications \cup
                   RestTryRecord(a, i, c, t.notificationType, t.isDelivered)
            /\ UNCHANGED attempts
    /\ UNCHANGED <<emergency_contacts, fcm_token, presenceVars, locationVars, sos_alerts,
                   resolutionPushes, reply, now>>

\* the continuation of await Promise.allSettled(...): res.json
RestAnswer(a) ==
    /\ a \in DOMAIN dispatch
    /\ dispatch[a].path = "rest"
    /\ dispatch[a].answer = NoAnswer
    /\ AllSettled(dispatch[a].tasks)
    /\ dispatch' = [dispatch EXCEPT ![a].answer =
           [kind |-> "ok",
            notificationsSent |-> SuccessCount(dispatch[a].tasks),
            totalContacts |-> Len(dispatch[a].contacts)]]
    /\ UNCHANGED <<emergency_contacts, fcm_token, presenceVars, locationVars, sos_alerts,
                   sos_notifications, attempts, resolutionPushes, reply, now>>

(***************************************************************************)
(* Socket event 'sos_alert'                                                *)
(***************************************************************************)
\* socket.on('sos_alert'): no validation of the event; the insert into
\* sos_alerts fails on a missing coordinate (latitude and longitude are
\* NOT NULL columns of the table) and the catch block emits 'error'.
\* userId comes from the event data, not from socket.userId.
SocketSosAlert(s, u, lat, lon) ==
    /\ s \in connected
    /\ IF lat = <<>> \/ lon = <<>>
       THEN /\ reply' = [op |-> "sos_alert", status |-> 0,
                         error |-> "Failed to send SOS alert"]
            /\ UNCHANGED <<sos_alerts, dispatch, attempts>>
       ELSE /\ Len(sos_alerts) + 1 \in AlertIds
            /\ sos_alerts' = Append(sos_alerts, NewAlert(u, lat, lon))
            /\ LET cs == emergency_contacts[u]
                   a == Len(sos_alerts) + 1 IN
               /\ dispatch' = Append(dispatch, StartDispatch("socket", cs))
               /\ attempts' = attempts \cup LiveEmits(a, cs)
            /\ UNCHANGED reply
    /\ UNCHANGED <<emergency_contacts, fcm_token, presenceVars, locationVars,
                   sos_notifications, resolutionPushes, now>>

\* the task of one contact from the users lookup to the end of the FCM call;
\* sendFCMNotification of the server file catches the error of axios.post
SocketPushStage(a, i, o) ==
    /\ a \in DOMAIN dispatch
    /\ dispatch[a].path = "socket"
    /\ i \in DOMAIN dispatch[a].tasks
    /\ dispatch[a].tasks[i].pc = "push"
    /\ LET c == dispatch[a].contacts[i]
           t == dispatch[a].tasks[i] IN
       IF fcm_token[c.contact_user_id]
       THEN /\ attempts' = attempts \cup {Attempt(a, i, "push", o)}
            /\ dispatch' = SetTask(a, i,
                   [t EXCEPT !.pc = IF o = "hang" THEN "hung" ELSE "sms"])
       ELSE /\ o = "ok"
            /\ dispatch' = SetTask(a, i, [t EXCEPT !.pc = "sms"])
            /\ UNCHANGED attempts
    /\ UNCHANGED <<emergency_contacts, fcm_token, presenceVars, locationVars, sos_alerts,
                   sos_notifications, resolutionPushes, reply, now>>

\* the row the socket path inserts after the sends of one contact
SocketRecord(a, i, c) ==
    {Notification(a, i, c,
        IF c.contact_user_id # NULL THEN "push" ELSE "sms", TRUE)}

\* the task of one contact from sendSMS to the insert into sos_notifications
SocketSmsStage(a, i, o) ==
    /\ a \in DOMAIN dispatch
    /\ dispatch[a].path = "socket"
    /\ i \in DOMAIN dispatch[a].tasks
    /\ dispatch[a].tasks[i].pc = "sms"
    /\ LET c == dispatch[a].contacts[i]
           t == dispatch[a].tasks[i] IN
       IF c.contact_phone # NULL
       THEN /\ attempts' = attempts \cup {Attempt(a, i, "sms", o)}
            /\ IF o = "ok"
               THEN /\ dispatch' = SetTask(a, i, [t EXCEPT !.pc = "fulfilled"])
                    /\ sos_notifications' =
                           sos_notifications \cup SocketRecord(a, i, c)
               ELSE /\ dispatch' = SetTask(a, i, [t EXCEPT !.pc = "rejected"])
                    /\ UNCHANGED sos_notifications
       ELSE /\ o = "ok"
            /\ dispatch' = SetTask(a, i, [t EXCEPT !.pc = "fulfilled"])
            /\ sos_notifications' = sos_notifications \cup SocketRecord(a, i, c)
            /\ UNCHANGED attempts
    /\ UNCHANGED <<emergency_contacts, fcm_token, presenceVars, locationVars, sos_alerts,
                   resolutionPushes, reply, now>>

\* the continuation of await Promise.all(notificationPromises): 'sos_sent',
\* or the catch block: 'error'
SocketAnswer(a) ==
    /\ a \in DOMAIN dispatch
    /\ dispatch[a].path = "socket"
    /\ dispatch[a].answer = NoAnswer
    /\ PromiseAllRejected(dispatch[a].tasks)
          \/ PromiseAllFulfilled(dispatch[a].tasks)
    /\ dispatch' = [dispatch EXCEPT ![a].answer =
           [kind |-> IF PromiseAllRejected(dispatch[a].tasks)
                     THEN "error" ELSE "sos_sent",
            notificationsSent |-> 0, totalContacts |-> 0]]
    /\ UNCHANGED <<emergency_contacts, fcm_token, presenceVars, locationVars, sos_alerts,
                   sos_notifications, attempts, resolutionPushes, reply, now>>

(***************************************************************************)
(* The mobile client.                                                      *)
(***************************************************************************)
\* triggerSOS of App.js, one confirmed press while the client has a location:
\* the client emits 'sos_alert' when it has a socket and then posts
\* /sos/trigger as well; the server starts the socket handler and the REST
\* route for them, each with its own insert into sos_alerts.  The press
\* followed is the first trigger of the run.
TriggerSOS(s, u, lat, lon) ==
    /\ sos_alerts = <<>>
    /\ lat # <<>> /\ lon # <<>>
    /\ LET cs == emergency_contacts[u]
           viaSocket == s \in connected
           viaRest == ~(Falsy(lat) \/ Falsy(lon))
           socketAlerts == IF viaSocket THEN <<NewAlert(u, lat, lon)>> ELSE <<>>
           restAlerts == IF viaRest THEN <<NewAlert(u, lat, lon)>> ELSE <<>> IN
       /\ sos_alerts' = socketAlerts \o restAlerts
       /\ dispatch' =
              (IF viaSocket THEN <<StartDispatch("socket", cs)>> ELSE <<>>)
                 \o (IF viaRest THEN <<StartDispatch("rest", cs)>> ELSE <<>>)
       /\ attempts' = IF viaSocket THEN attempts \cup LiveEmits(1, cs)
                      ELSE attempts
       /\ reply' = IF viaRest THEN reply
                   ELSE [op |-> "trigger", status |-> 400,
                         error |-> "Location coordinates required"]
    /\ UNCHANGED <<emergency_contacts, fcm_token, presenceVars, locationVars,
                   sos_notifications, resolutionPushes, now>>

(***************************************************************************)
(* PUT /api/sos/alerts/:alertId/resolve                                    *)
(***************************************************************************)
\* the number of pushes sendResolutionNotification sends to user v for the
\* rows of alert id: one per row that names v, when v has a token
ResolutionPushesTo(id, v) ==
    IF fcm_token[v]
    THEN Cardinality({n \in sos_notifications :
             n.sos_alert_id = id /\ n.recipient_user_id = v})
    ELSE 0

ResolveAlertAnyCaller(u, id) ==
    IF id \notin DOMAIN sos_alerts
    THEN /\ reply' = [op |-> "resolve", status |-> 403,
                      error |-> "Unauthorized to resolve this alert"]
         /\ UNCHANGED <<emergency_contacts, fcm_token, presenceVars, locationVars,
                        sos_alerts, dispatch, sos_notifications, attempts,
                        resolutionPushes, now>>
    ELSE /\ now <= MaxTime
         /\ sos_alerts' = [sos_alerts EXCEPT ![id].status = "resolved",
                                              ![id].resolved_at = now]
         /\ resolutionPushes' =
                [v \in Users |-> resolutionPushes[v] + ResolutionPushesTo(id, v)]
         /\ reply' = [op |-> "resolve", status |-> 200, error |-> "none"]
         /\ now' = now + 1
         /\ UNCHANGED <<emergency_contacts, fcm_token, presenceVars, locationVars,
                        dispatch, sos_notifications, attempts>>

ResolveAlert(u, id) ==
    IF id \notin DOMAIN sos_alerts \/ sos_alerts[id].user_id # u
    THEN /\ reply' = [op |-> "resolve", status |-> 403,
                      error |-> "Unauthorized to resolve this alert"]
         /\ UNCHANGED <<emergency_contacts, fcm_token, presenceVars, locationVars, sos_alerts,
                        dispatch, sos_notifications, attempts,
                        resolutionPushes, now>>
    ELSE /\ now <= MaxTime
         /\ sos_alerts' = [sos_alerts EXCEPT ![id].status = "resolved",
                                              ![id].resolved_at = now]
         /\ resolutionPushes' =
                [v \in Users |-> resolutionPushes[v] + ResolutionPushesTo(id, v)]
         \* await Promise.allSettled(...): a push that rejects is settled, a
         \* push that never settles leaves the caller without an answer
         /\ \E o \in PushOutcomes :
               reply' = IF o = "hang"
                           /\ \E v \in Users : ResolutionPushesTo(id, v) > 0
                        THEN reply
                        ELSE [op |-> "resolve", status |-> 200, error |-> "none"]
         /\ now' = now + 1
         /\ UNCHANGED <<emergency_contacts, fcm_token, presenceVars, locationVars, dispatch,
                        sos_notifications, attempts>>

(***************************************************************************)
(* Relationships: connections, families, explicit permissions.             *)
(***************************************************************************)
\* .single(): data is the row when the query matches exactly one row, and
\* no data (with an error) when it matches none or several
Single(rows) == IF Cardinality(rows) = 1 THEN <<CHOOSE r \in rows : TRUE>> ELSE <<>>

\* a deleted row: its id is not used again
Deleted == [requester_id |-> NULL, addressee_id |-> NULL, status |-> "deleted"]

\* or(and(requester_id.eq.a,addressee_id.eq.b),and(requester_id.eq.b,addressee_id.eq.a))
Between(a, b) ==
    {id \in DOMAIN user_connections :
        \/ /\ user_connections[id].requester_id = a
           /\ user_connections[id].addressee_id = b
        \/ /\ user_connections[id].requester_id = b
           /\ user_connections[id].addressee_id = a}

\* POST /api/connections/request, up to the insert: validation and the
\* check for an existing connection
RequestConnection(u, a) ==
    /\ <<u, a>> \notin connRequests
    /\ IF u = a
       THEN /\ reply' = [op |-> "request", status |-> 400,
                         error |-> "Cannot connect with yourself"]
            /\ UNCHANGED connRequests
       ELSE IF Single(Between(u, a)) # <<>>
       THEN /\ reply' = [op |-> "request", status |-> 409,
                         error |-> "Connection already exists"]
            /\ UNCHANGED connRequests
       ELSE /\ connRequests' = connRequests \cup {<<u, a>>}
            /\ UNCHANGED reply
    /\ UNCHANGED <<emergency_contacts, fcm_token, presenceVars, sos_alerts,
                   dispatch, sos_notifications, attempts, resolutionPushes,
                   now, user_connections, family_members,
                   location_permissions, user_locations, location_updated>>

\* POST /api/connections/request, the insert and the answer; the table has
\* UNIQUE(requester_id, addressee_id)
InsertConnection(u, a) ==
    /\ <<u, a>> \in connRequests
    /\ connRequests' = connRequests \ {<<u, a>>}
    /\ IF \E id \in DOMAIN user_connections :
              /\ user_connections[id].requester_id = u
              /\ user_connections[id].addressee_id = a
       THEN /\ reply' = [op |-> "request", status |-> 500,
                         error |-> "Failed to send connection request"]
            /\ UNCHANGED user_connections
       ELSE /\ Len(user_connections) < MaxConnections
            /\ user_connections' = Append(user_connections,
                   [requester_id |-> u, addressee_id |-> a, status |-> "pending"])
            /\ reply' = [op |-> "request", status |-> 201, error |-> "none"]
    /\ UNCHANGED <<emergency_contacts, fcm_token, presenceVars, sos_alerts,
                   dispatch, sos_notifications, attempts, resolutionPushes,
                   now, family_members, location_permissions, user_locations,
                   location_updated>>

\* PUT /api/connections/:connectionId/accept
AcceptConnection(u, id) ==
    /\ IF id \notin DOMAIN user_connections \/ user_connections[id] = Deleted
       THEN /\ reply' = [op |-> "accept", status |-> 404,
                         error |-> "Connection not found"]
            /\ UNCHANGED user_connections
       ELSE IF user_connections[id].addressee_id # u
       THEN /\ reply' = [op |-> "accept", status |-> 403,
                         error |-> "Not authorized to accept this request"]
            /\ UNCHANGED user_connections
       ELSE IF user_connections[id].status # "pending"
       THEN /\ reply' = [op |-> "accept", status |-> 400,
                         error |-> "Connection is not pending"]
            /\ UNCHANGED user_connections
       ELSE /\ user_connections' =
                   [user_connections EXCEPT ![id].status = "accepted"]
            /\ reply' = [op |-> "accept", status |-> 200, error |-> "none"]
    /\ UNCHANGED <<emergency_contacts, fcm_token, presenceVars, sos_alerts,
                   dispatch, sos_notifications, attempts, resolutionPushes,
                   now, connRequests, family_members, location_permissions,
                   user_locations, location_updated>>

\* DELETE /api/connections/:connectionId
DeleteConnection(u, id) ==
    /\ IF id \notin DOMAIN user_connections \/ user_connections[id] = Deleted
       THEN /\ reply' = [op |-> "delete", status |-> 404,
                         error |-> "Connection not found"]
            /\ UNCHANGED user_connections
       ELSE IF /\ user_connections[id].requester_id # u
               /\ user_connections[id].addressee_id # u
       THEN /\ reply' = [op |-> "delete", status |-> 403,
                         error |-> "Not authorized to delete this connection"]
            /\ UNCHANGED user_connections
       ELSE /\ user_connections' = [user_connections EXCEPT ![id] = Deleted]
            /\ reply' = [op |-> "delete", status |-> 200, error |-> "none"]
    /\ UNCHANGED <<emergency_contacts, fcm_token, presenceVars, sos_alerts,
                   dispatch, sos_notifications, attempts, resolutionPushes,
                   now, connRequests, family_members, location_permissions,
                   user_locations, location_updated>>

\* POST /api/families/join with the invite code of family f
JoinFamily(u, f) ==
    /\ IF [family_id |-> f, user_id |-> u] \in family_members
       THEN /\ reply' = [op |-> "join_family", status |-> 409,
                         error |-> "You are already a member of this family"]
            /\ UNCHANGED family_members
       ELSE /\ family_members' =
                   family_members \cup {[family_id |-> f, user_id |-> u]}
            /\ reply' = [op |-> "join_family", status |-> 200, error |-> "none"]
    /\ UNCHANGED <<emergency_contacts, fcm_token, presenceVars, sos_alerts,
                   dispatch, sos_notifications, attempts, resolutionPushes,
                   now, user_connections, connRequests, location_permissions,
                   user_locations, location_updated>>

\* DELETE /api/families/:familyId/leave
LeaveFamily(u, f) ==
    /\ family_members' = family_members \ {[family_id |-> f, user_id |-> u]}
    /\ reply' = [op |-> "leave_family", status |-> 200, error |-> "none"]
    /\ UNCHANGED <<emergency_contacts, fcm_token, presenceVars, sos_alerts,
                   dispatch, sos_notifications, attempts, resolutionPushes,
                   now, user_connections, connRequests, location_permissions,
                   user_locations, location_updated>>

\* a row of location_permissions is written: subject s shares with viewer v,
\* enabled, with or without an expiry
GrantPermission(s, v, e) ==
    /\ s # v
    /\ Len(location_permissions) < MaxPermissions
    /\ location_permissions' = Append(location_permissions,
           [user_id |-> s, shared_with_user_id |-> v, is_enabled |-> TRUE,
            expires_at |-> e])
    /\ UNCHANGED <<emergency_contacts, fcm_token, presenceVars, sosVars,
                   user_connections, connRequests, family_members,
                   user_locations, location_updated>>

\* the subject switches a permission off
DisablePermission(id) ==
    /\ id \in DOMAIN location_permissions
    /\ location_permissions[id].is_enabled
    /\ location_permissions' =
           [location_permissions EXCEPT ![id].is_enabled = FALSE]
    /\ UNCHANGED <<emergency_contacts, fcm_token, presenceVars, sosVars,
                   user_connections, connRequests, family_members,
                   user_locations, location_updated>>

\* time passes
Tick ==
    /\ now <= MaxTime
    /\ now' = now + 1
    /\ UNCHANGED <<emergency_contacts, fcm_token, presenceVars, sos_alerts,
                   dispatch, sos_notifications, attempts, resolutionPushes,
                   reply, locationVars>>

(***************************************************************************)
(* Location sharing.                                                       *)
(***************************************************************************)
\* the families of user u
FamiliesOf(u) == {m.family_id : m \in {x \in family_members : x.user_id = u}}

\* the enabled rows of location_permissions from subject s to viewer v
EnabledPermissions(s, v) ==
    {id \in DOMAIN location_permissions :
        /\ location_permissions[id].user_id = s
        /\ location_permissions[id].shared_with_user_id = v
        /\ location_permissions[id].is_enabled}

\* the family check hands a query builder, not an array of family ids, to
\* .in('family_id', ...): the client library either throws on the value or
\* sends a filter the database rejects, and then the query yields no rows
InFilterOutcomes == {"throws", "no_rows"}

\* "true", "false", or "throws" when the call does not return
checkLocationPermission(requesterId, targetUserId, inFilter) ==
    IF requesterId = targetUserId THEN "true"
    ELSE IF Single({id \in Between(requesterId, targetUserId) :
                       user_connections[id].status = "accepted"}) # <<>>
    THEN "true"
    ELSE IF inFilter = "throws"
    THEN "throws"
    ELSE IF Single(EnabledPermissions(targetUserId, requesterId)) # <<>>
    THEN "true"
    ELSE "false"

\* GET /api/locations/user/:userId
GetUserLocation(requesterId, targetUserId) ==
    /\ \E inFilter \in InFilterOutcomes :
        reply' =
          IF checkLocationPermission(requesterId, targetUserId, inFilter) = "throws"
          THEN [op |-> "get_location", status |-> 500,
                error |-> "Failed to get location"]
          ELSE IF checkLocationPermission(requesterId, targetUserId, inFilter) = "false"
          THEN [op |-> "get_location", status |-> 403,
                error |-> "You do not have permission to view this user's location"]
          ELSE IF \A n \in DOMAIN user_locations :
                      user_locations[n].user_id # targetUserId
          THEN [op |-> "get_location", status |-> 404,
                error |-> "Location not found"]
          ELSE [op |-> "get_location", status |-> 200, error |-> "none"]
    /\ UNCHANGED <<emergency_contacts, fcm_token, presenceVars, sos_alerts,
                   dispatch, sos_notifications, attempts, resolutionPushes,
                   now, locationVars>>

LocationViewersQueued(userId) ==
    {v \in Users : EnabledPermissions(userId, v) # {}}

\* socket.on('location_update'): the users the update is emitted to
LocationViewers(userId) ==
    {v \in Users : EnabledPermissions(userId, v) # {} /\ activeUsers[v] # NULL}

\* the insert into user_locations fails when a NOT NULL coordinate is missing
InsertNeverFails(lat, lon) == FALSE
InsertFails(lat, lon) == lat = <<>> \/ lon = <<>>

FanOutUntilFailure(userId, n) ==
    IF \E v \in LocationViewers(userId) : activeUsers[v] \notin connected
    THEN {}
    ELSE {[location |-> n, to |-> v, socket |-> activeUsers[v],
           delivered |-> TRUE] : v \in LocationViewers(userId)}
\* permissions.forEach: one location_updated event per viewer in the
\* registry, sent to the connection the registry names; the event reaches
\* the viewer when that connection is open and is lost without an error
\* when it is closed
FanOut(userId, n) ==
    {[location |-> n, to |-> v, socket |-> activeUsers[v],
      delivered |-> activeUsers[v] \in connected] : v \in LocationViewers(userId)}

\* socket.on('location_update').  The saved row also keeps what the handler
\* read while it ran: the viewers of its permissions query and the users
\* that were in the registry.
LocationUpdate(s, userId, lat, lon) ==
    /\ s \in connected
    /\ IF InsertFails(lat, lon)
       THEN /\ reply' = [op |-> "location_update", status |-> 0,
                         error |-> "Failed to update location"]
            /\ UNCHANGED <<user_locations, location_updated>>
       ELSE /\ Len(user_locations) + 1 \in LocationIds
            /\ user_locations' = Append(user_locations,
                   [user_id |-> userId, timestamp |-> now,
                    permissions |-> {v \in Users :
                                       EnabledPermissions(userId, v) # {}},
                    present |-> {v \in Users : activeUsers[v] # NULL}])
            /\ location_updated' = location_updated \cup
                   FanOut(userId, Len(user_locations) + 1)
            /\ UNCHANGED reply
    /\ UNCHANGED <<emergency_contacts, fcm_token, presenceVars, sos_alerts,
                   dispatch, sos_notifications, attempts, resolutionPushes,
                   now, relationVars>>

(***************************************************************************)
(* The specification.                                                      *)
(***************************************************************************)
ContactIds == 1..MaxContacts

ConfigNext ==
    \/ \E owner \in Owners, cu \in Pair \cup {NULL}, phone \in Phones :
           AddContact(owner, cu, phone)
    \/ \E u \in Pair \ Owners : UpdateFcmToken(u)

PresenceNext ==
    \/ \E s \in SosSockets : Connect(s)
    \/ \E s \in SosSockets, u \in Pair : Join(s, u)
    \/ \E s \in SosSockets : Disconnect(s)

RestNext ==
    \/ \E u \in Pair, lat \in LatInputs, lon \in LonInputs :
           RestTrigger(u, lat, lon)
    \/ \E a \in AlertIds, i \in ContactIds, o \in PushOutcomes :
           RestPushStage(a, i, o)
    \/ \E a \in AlertIds, i \in ContactIds, o \in SmsOutcomes :
           RestSmsStage(a, i, o)
    \/ \E a \in AlertIds : RestAnswer(a)

SocketNext ==
    \/ \E s \in SosSockets, u \in Pair, lat \in LatInputs, lon \in LonInputs :
           SocketSosAlert(s, u, lat, lon)
    \/ \E a \in AlertIds, i \in ContactIds, o \in PushOutcomes :
           SocketPushStage(a, i, o)
    \/ \E a \in AlertIds, i \in ContactIds, o \in SmsOutcomes :
           SocketSmsStage(a, i, o)
    \/ \E a \in AlertIds : SocketAnswer(a)

ResolveNext ==
    \E u \in Pair, id \in AlertIds : ResolveAlert(u, id)

\* the trigger on both paths
Next == ConfigNext \/ PresenceNext \/ RestNext \/ SocketNext
Spec == Init /\ [][Next]_vars

\* the REST routes of /api/sos: the trigger and the resolution
NextRest == ConfigNext \/ RestNext \/ ResolveNext
SpecRest == Init /\ [][NextRest]_vars

\* the trigger on both paths with the registry left empty: the sender's
\* connection opens and never joins
NextTrigger ==
    \/ ConfigNext
    \/ \E s \in SosSockets : Connect(s)
    \/ RestNext
    \/ SocketNext
SpecTrigger == Init /\ [][NextTrigger]_vars

\* the presence registry alone, with two connections
NextPresence ==
    \/ \E s \in Sockets : Connect(s)
    \/ \E s \in Sockets, u \in Pair : Join(s, u)
    \/ \E s \in Sockets : Disconnect(s)
SpecPresence == Init /\ [][NextPresence]_vars

ConnectionIds == 1..MaxConnections

ConnectionNext ==
    \/ \E u \in Pair, a \in Pair : RequestConnection(u, a)
    \/ \E u \in Pair, a \in Pair : InsertConnection(u, a)
    \/ \E u \in Pair, id \in ConnectionIds : AcceptConnection(u, id)
    \/ \E u \in Pair, id \in ConnectionIds : DeleteConnection(u, id)

FamilyNext ==
    \/ \E u \in Pair, f \in Families : JoinFamily(u, f)
    \/ \E u \in Pair, f \in Families : LeaveFamily(u, f)

PermissionNext ==
    \/ \E s \in Pair \ Owners, v \in Pair, e \in ExpiryInputs :
           GrantPermission(s, v, e)
    \/ \E id \in 1..MaxPermissions : DisablePermission(id)
    \/ Tick

\* who may view whose location: the relationships and the lookup route
NextAuth ==
    \/ ConnectionNext
    \/ FamilyNext
    \/ PermissionNext
    \/ \E r \in Pair, t \in Pair : GetUserLocation(r, t)
SpecAuth == Init /\ [][NextAuth]_vars

\* the location update of user u1 and its audience by explicit permission
NextLocation ==
    \/ \E s \in Sockets : Connect(s)
    \/ \E s \in Sockets, u \in Pair \ Owners : Join(s, u)
    \/ \E s \in Sockets : Disconnect(s)
    \/ \E s \in Owners, v \in Pair, e \in ExpiryInputs : GrantPermission(s, v, e)
    \/ \E id \in 1..MaxPermissions : DisablePermission(id)
    \/ Tick
    \/ \E s \in Sockets, u \in Owners, lat \in LatInputs, lon \in LonInputs :
           LocationUpdate(s, u, lat, lon)
SpecLocation == Init /\ [][NextLocation]_vars

\* the location update of user u1 and its audience by connection
NextAudience ==
    \/ NextPresence
    \/ ConnectionNext
    \/ \E s \in Sockets, u \in Owners, lat \in LatInputs, lon \in LonInputs :
           LocationUpdate(s, u, lat, lon)
SpecAudience == Init /\ [][NextAudience]_vars

\* the alerts one press of the mobile client can create
PressAlertIds == {1, 2}

\* one SOS press of the mobile client and the dispatches it starts
NextPress ==
    \/ \E owner \in Owners, cu \in Pair \cup {NULL}, phone \in Phones :
           AddContact(owner, cu, phone)
    \/ \E s \in SosSockets : Connect(s)
    \/ \E s \in SosSockets, u \in Owners, lat \in LatInputs, lon \in LonInputs :
           TriggerSOS(s, u, lat, lon)
    \/ \E a \in PressAlertIds, i \in ContactIds, o \in PushOutcomes :
           RestPushStage(a, i, o)
    \/ \E a \in PressAlertIds, i \in ContactIds, o \in SmsOutcomes :
           RestSmsStage(a, i, o)
    \/ \E a \in PressAlertIds : RestAnswer(a)
    \/ \E a \in PressAlertIds, i \in ContactIds, o \in PushOutcomes :
           SocketPushStage(a, i, o)
    \/ \E a \in PressAlertIds, i \in ContactIds, o \in SmsOutcomes :
           SocketSmsStage(a, i, o)
    \/ \E a \in PressAlertIds : SocketAnswer(a)
SpecPress == Init /\ [][NextPress]_vars

\* the location update of user u1 and its fan-out to two viewers
NextFanOut ==
    \/ \E s \in Sockets : Connect(s)
    \/ \E s \in Sockets, u \in Users \ Owners : Join(s, u)
    \/ \E s \in Sockets : Disconnect(s)
    \/ \E s \in Owners, v \in Users \ Owners : GrantPermission(s, v, <<>>)
    \/ \E s \in Sockets, u \in Owners, lat \in LatInputs, lon \in LonInputs :
           LocationUpdate(s, u, lat, lon)
SpecFanOut == Init /\ [][NextFanOut]_vars

(***************************************************************************)
(* Observations used by the properties.                                    *)
(***************************************************************************)
Answered(a) == a \in DOMAIN dispatch /\ dispatch[a].answer # NoAnswer
Attempted(a, i, channel) ==
    \E o \in PushOutcomes : Attempt(a, i, channel, o) \in attempts
Succeeded(a, i) ==
    \E channel \in {"live", "push", "sms"} :
        Attempt(a, i, channel, "ok") \in attempts
TaskSettled(a, i) == dispatch[a].tasks[i].pc \in Settled
RecordsOf(a) == {n \in sos_notifications : n.sos_alert_id = a}

\* a trigger of user u, on either path
TriggerBy(u) ==
    \/ \E lat \in LatInputs, lon \in LonInputs : RestTrigger(u, lat, lon)
    \/ \E s \in SosSockets, lat \in LatInputs, lon \in LonInputs :
           SocketSosAlert(s, u, lat, lon)

(***************************************************************************)
(* Properties.                                                             *)
(***************************************************************************)
\* C1: a trigger (REST or socket) of a user with zero emergency contacts
\* leaves the rows of sos_alerts as they were.
C1_NoAlertWithoutContacts ==
    [][\A u \in Users :
          (emergency_contacts[u] = <<>> /\ TriggerBy(u))
              => sos_alerts' = sos_alerts]_vars

\* C2: a trigger for a user with zero contacts never ends in a success
\* answer: the REST call answers the no-contacts rejection (not the
\* invalid-location one) and the socket path does not emit 'sos_sent'.
C2_NoContactsIsRejected ==
    \A a \in DOMAIN dispatch :
        (dispatch[a].contacts = <<>> /\ Answered(a))
            => /\ dispatch[a].answer.kind \notin {"ok", "sos_sent"}
               /\ dispatch[a].path = "rest"
                      => dispatch[a].answer.kind = "no_contacts"

\* C3: when the push attempt to a contact with a phone number has failed,
\* the task of that contact does not settle without an SMS attempt.
C3_SmsAttemptedAfterPushFailure ==
    \A a \in DOMAIN dispatch : \A i \in DOMAIN dispatch[a].tasks :
        (/\ TaskSettled(a, i)
         /\ dispatch[a].contacts[i].contact_phone # NULL
         /\ Attempt(a, i, "push", "fail") \in attempts)
            => Attempted(a, i, "sms")

\* C4: a contact that is a registered user reachable by live or push
\* delivery (in the registry when the dispatch starts, or pushed to) and has
\* a phone number gets a live/push attempt and an SMS attempt before its
\* task settles.
C4_TwoAttemptsForReachableContact ==
    \A a \in DOMAIN dispatch : \A i \in DOMAIN dispatch[a].tasks :
        (/\ TaskSettled(a, i)
         /\ dispatch[a].contacts[i].contact_phone # NULL
         /\ i \in dispatch[a].present \/ Attempted(a, i, "push"))
            => /\ Attempted(a, i, "live") \/ Attempted(a, i, "push")
               /\ Attempted(a, i, "sms")

\* C5: the notificationsSent of the REST answer is the number of contacts
\* with at least one successful delivery on some channel.
C5_SentCountsContactsReached ==
    \A a \in DOMAIN dispatch :
        dispatch[a].answer.kind = "ok"
            => dispatch[a].answer.notificationsSent =
                   Cardinality({i \in DOMAIN dispatch[a].tasks : Succeeded(a, i)})

\* C6: once the REST trigger of a user with N >= 1 contacts has answered,
\* the alert has at least N notification rows, at least one per contact,
\* and notificationsSent <= totalContacts = N.
C6_RecordsAndAggregate ==
    \A a \in DOMAIN dispatch :
        (dispatch[a].path = "rest" /\ Answered(a)
             /\ Len(dispatch[a].contacts) >= 1)
            => /\ Cardinality(RecordsOf(a)) >= Len(dispatch[a].contacts)
               /\ \A i \in DOMAIN dispatch[a].contacts :
                      \E n \in RecordsOf(a) : n.contact = i
               /\ dispatch[a].answer.notificationsSent
                      <= dispatch[a].answer.totalContacts
               /\ dispatch[a].answer.totalContacts = Len(dispatch[a].contacts)

\* a REST trigger with two contacts has answered, one contact's task rejected
C6_Witness ==
    \E a \in DOMAIN dispatch :
        /\ dispatch[a].path = "rest"
        /\ Answered(a)
        /\ Len(dispatch[a].contacts) = 2
        /\ dispatch[a].answer.notificationsSent = 1

\* C7: once the alert exists, a failed push or SMS attempt never turns the
\* answer of the trigger into an error, on either path.
C7_DeliveryFailureIsNotAnError ==
    \A a \in DOMAIN dispatch :
        (/\ Answered(a)
         /\ \E i \in DOMAIN dispatch[a].tasks, channel \in {"push", "sms"} :
                Attempt(a, i, channel, "fail") \in attempts)
            => dispatch[a].answer.kind \in {"ok", "sos_sent"}

\* C8: the step that answers the caller of a dispatch is taken only when
\* the task of every contact has settled.
C8_AnswerAfterAllSettled ==
    [][\A a \in AlertIds :
          (a \in DOMAIN dispatch /\ ~Answered(a) /\ dispatch'[a].answer # NoAnswer)
              => \A i \in DOMAIN dispatch'[a].tasks :
                     dispatch'[a].tasks[i].pc \in Settled]_vars

\* C9: a trigger that has not answered its caller can always take a step:
\* a provider call either is still to settle, or has timed out as a failure,
\* so no dispatch waits forever on a provider that never responds.
C9_NoDispatchWaitsForever ==
    \A a \in DOMAIN dispatch :
        ~Answered(a)
            => \/ \E i \in DOMAIN dispatch[a].tasks :
                      dispatch[a].tasks[i].pc \in {"push", "sms"}
               \/ ENABLED (RestAnswer(a) \/ SocketAnswer(a))

\* C10: the first resolve of an active alert by its owner sets
\* status = resolved and resolved_at and answers ok; a resolve of an alert
\* that is already resolved is answered as an error, leaves resolved_at as
\* it was and sends no further resolution push.
C10_SecondResolveIsANoOp ==
    [][\A u \in Users, id \in AlertIds :
          (id \in DOMAIN sos_alerts /\ sos_alerts[id].user_id = u
               /\ ResolveAlert(u, id))
              => IF sos_alerts[id].status = "active"
                 THEN /\ sos_alerts'[id].status = "resolved"
                      /\ sos_alerts'[id].resolved_at = now
                      /\ reply'.status = 200
                 ELSE /\ reply'.status # 200
                      /\ sos_alerts'[id].resolved_at = sos_alerts[id].resolved_at
                      /\ resolutionPushes' = resolutionPushes]_vars

\* the answer the resolve route gives to a caller who is not the owner
Unauthorized ==
    [op |-> "resolve", status |-> 403,
     error |-> "Unauthorized to resolve this alert"]

\* C11: a resolve of an existing alert by a caller who does not own it is
\* answered unauthorized, leaves every alert row (status, resolved_at) as it
\* was and sends no resolution push to anyone.
C11_ResolveByNonOwner ==
    [][\A u \in Users, id \in AlertIds :
          (id \in DOMAIN sos_alerts /\ sos_alerts[id].user_id # u
               /\ ResolveAlert(u, id))
              => /\ reply' = Unauthorized
                 /\ sos_alerts' = sos_alerts
                 /\ resolutionPushes' = resolutionPushes]_vars

\* an alert that its owner resolved, with a recipient that got the
\* resolution push, and the last resolve after that answered unauthorized:
\* that call came from a caller who is not the owner
C11_Witness ==
    /\ 1 \in DOMAIN sos_alerts
    /\ sos_alerts[1].status = "resolved"
    /\ \E v \in Users : resolutionPushes[v] = 1
    /\ reply = Unauthorized

\* C12: a resolve of an alert id that does not exist changes no alert and is
\* answered with something else than the unauthorized answer, so that the
\* caller can tell not-found from unauthorized.
C12_NotFoundIsDistinguishable ==
    [][\A u \in Users, id \in AlertIds :
          (id \notin DOMAIN sos_alerts /\ ResolveAlert(u, id))
              => /\ reply'.op = "resolve"
                 /\ reply' # Unauthorized
                 /\ sos_alerts' = sos_alerts]_vars

\* C13: when a connection s disconnects while the registry entry of u names
\* another connection that is still open, the entry of u stays as it is.
C13_DisconnectKeepsLatestConnection ==
    [][\A s \in Sockets, u \in Users :
          (Disconnect(s) /\ activeUsers[u] # NULL /\ activeUsers[u] # s
               /\ activeUsers[u] \in connected)
              => activeUsers'[u] = activeUsers[u]]_vars

\* C14: every registry entry names a connection that is still connected.
C14_EntriesNameOpenConnections ==
    \A u \in Users : activeUsers[u] # NULL => activeUsers[u] \in connected

\* C15: the registry starts empty, an entry of u appears only by a join of
\* u, and after a join of u on connection s the entry of u is s, whatever
\* it was before.
C15_JoinSetsTheEntry ==
    /\ \A u \in Users : activeUsers[u] = NULL
    /\ [][\A u \in Users :
              /\ (activeUsers[u] = NULL /\ activeUsers'[u] # NULL)
                     => \E s \in Sockets : Join(s, u)
              /\ \A s \in Sockets : Join(s, u) => activeUsers'[u] = s]_vars

\* u joined on s1 and later on s2, both still open: the entry names s2
C15_Witness ==
    /\ {"s1", "s2"} \subseteq connected
    /\ socketUserId["s1"] = "u1"
    /\ socketUserId["s2"] = "u1"
    /\ activeUsers["u1"] = "s2"

(***************************************************************************)
(* Who is authorized to view a subject's location.                         *)
(***************************************************************************)
\* an accepted connection between a and b, whichever of them requested it
AcceptedConnection(a, b) ==
    \E id \in Between(a, b) : user_connections[id].status = "accepted"

SharedFamily(a, b) == FamiliesOf(a) \cap FamiliesOf(b) # {}

\* an enabled permission from subject s to viewer v that has no expiry or
\* whose expiry is in the future
ValidPermission(v, s) ==
    \E id \in EnabledPermissions(s, v) :
        \/ location_permissions[id].expires_at = <<>>
        \/ location_permissions[id].expires_at[1] > now

Granted(v, s) ==
    AcceptedConnection(v, s) \/ SharedFamily(v, s) \/ ValidPermission(v, s)

\* the step is a location update of subject s that was saved
Updated(s) ==
    /\ Len(user_locations') = Len(user_locations) + 1
    /\ user_locations'[Len(user_locations')].user_id = s

\* the update with row id n was emitted to viewer v
EmittedTo(n, v) == \E e \in location_updated : e.location = n /\ e.to = v

\* C16: when a location update of subject s is processed, every other user
\* who is in the registry and has a grant of any kind on s (accepted
\* connection, shared family, valid explicit permission) is sent a
\* location_updated event for it.
C16_EveryGrantedViewerIsPushed ==
    [][\A s \in Users, v \in Users :
          (Updated(s) /\ v # s /\ activeUsers[v] # NULL /\ Granted(v, s))
              => \E e \in location_updated' :
                     e.location = Len(user_locations') /\ e.to = v]_vars

\* C17: a location update of subject s is emitted only to users who have a
\* grant on s at that moment.
C17_NoPushWithoutGrant ==
    [][\A s \in Users :
          Updated(s)
              => \A e \in location_updated' \ location_updated :
                     Granted(e.to, s)]_vars

C19_AcceptedConnectionGrantsBothWays ==
    [][\A a \in Users, b \in Users :
          (AcceptedConnection(a, b)
               /\ (GetUserLocation(a, b) \/ GetUserLocation(b, a)))
              => reply'.status \in {200, 404}]_vars

\* C20: a location update is emitted to no user who is not in the registry
\* when it is processed, the sender gets no error because of it, and events
\* of an update are emitted only while that update is processed: nothing is
\* kept for a viewer who joins later.
C20_AbsentViewerGetsNothing ==
    [][/\ \A s \in Users, v \in Users :
              (Updated(s) /\ activeUsers[v] = NULL)
                  => /\ \A e \in location_updated' :
                            ~(e.location = Len(user_locations') /\ e.to = v)
                     /\ reply' = reply
       /\ \A e \in location_updated' \ location_updated :
              /\ Len(user_locations') = Len(user_locations) + 1
              /\ e.location = Len(user_locations')]_vars

\* u2 had an enabled permission of u1 and was not in the registry when the
\* update of u1 was processed, joined afterwards, and has received nothing
C20_Witness ==
    /\ 1 \in DOMAIN user_locations
    /\ user_locations[1].user_id = "u1"
    /\ "u2" \in user_locations[1].permissions
    /\ "u2" \notin user_locations[1].present
    /\ activeUsers["u2"] # NULL
    /\ activeUsers["u2"] \in connected
    /\ ~EmittedTo(1, "u2")
    /\ reply = NoReply

\* C21: a trigger, REST or socket, whose request carries no latitude or no
\* longitude is answered with an error and creates no alert, starts no
\* dispatch, makes no delivery attempt and writes no notification row.
C21_MissingCoordinatesRejected ==
    [][\A u \in Users, lat \in LatInputs, lon \in LonInputs :
          ((lat = <<>> \/ lon = <<>>)
               /\ (RestTrigger(u, lat, lon)
                      \/ \E s \in SosSockets : SocketSosAlert(s, u, lat, lon)))
              => /\ reply'.op \in {"trigger", "sos_alert"}
                 /\ reply'.error # "none"
                 /\ sos_alerts' = sos_alerts
                 /\ dispatch' = dispatch
                 /\ attempts' = attempts
                 /\ sos_notifications' = sos_notifications]_vars

\* u1 has a contact, the socket trigger without coordinates was answered
\* with 'error', and nothing was created or sent
C21_Witness ==
    /\ emergency_contacts["u1"] # <<>>
    /\ reply = [op |-> "sos_alert", status |-> 0,
                error |-> "Failed to send SOS alert"]
    /\ sos_alerts = <<>>
    /\ attempts = {}
    /\ sos_notifications = {}

\* a contact with a phone number and no contact_user_id
PhoneOnly(c) == c.contact_user_id = NULL /\ c.contact_phone # NULL

\* C22: a REST trigger of a user whose only contact has a phone number and
\* no contact_user_id, with an SMS that succeeds, creates the alert, writes
\* exactly one notification row, of type sms and delivered, and answers
\* notificationsSent = 1 and totalContacts = 1.
C22_OnePhoneContact ==
    \A a \in DOMAIN dispatch :
        (/\ dispatch[a].path = "rest"
         /\ Len(dispatch[a].contacts) = 1
         /\ PhoneOnly(dispatch[a].contacts[1])
         /\ Attempt(a, 1, "sms", "ok") \in attempts)
            => /\ a \in DOMAIN sos_alerts
               /\ RecordsOf(a) =
                      {Notification(a, 1, dispatch[a].contacts[1], "sms", TRUE)}
               /\ Answered(a)
                      => dispatch[a].answer =
                             [kind |-> "ok", notificationsSent |-> 1,
                              totalContacts |-> 1]

C22_Witness ==
    /\ 1 \in DOMAIN dispatch
    /\ dispatch[1].path = "rest"
    /\ Len(dispatch[1].contacts) = 1
    /\ PhoneOnly(dispatch[1].contacts[1])
    /\ Attempt(1, 1, "sms", "ok") \in attempts
    /\ Answered(1)

\* C23: the disconnect of a connection clears the entry of the user it
\* joined as and no other entry; when that user is already absent, or when
\* the connection never sent 'join', the registry stays as it is, so that
\* clearing twice has the effect of clearing once.
C23_ClearIsIdempotent ==
    [][\A s \in Sockets :
          Disconnect(s)
              => LET u == socketUserId[s] IN
                 /\ u = NULL => activeUsers' = activeUsers
                 /\ (u # NULL /\ activeUsers[u] = NULL)
                        => activeUsers' = activeUsers
                 /\ u # NULL
                        => /\ activeUsers'[u] = NULL
                           /\ \A w \in Users \ {u} :
                                  activeUsers'[w] = activeUsers[w]]_vars

\* two connections joined as u1 and both have disconnected: the entry of u1
\* was cleared twice, and the entry of u2 is still there
C23_Witness ==
    /\ connected = {}
    /\ socketUserId["s1"] = "u1"
    /\ socketUserId["s2"] = "u1"
    /\ activeUsers["u1"] = NULL
    /\ activeUsers["u2"] # NULL

\* C24: once a dispatch has answered, every (contact, channel) on which a
\* delivery was attempted has exactly one notification row of that channel:
\* a contact with a push attempt and an SMS attempt has two rows.
C24_OneRecordPerAttemptedChannel ==
    \A a \in DOMAIN dispatch :
        Answered(a)
            => \A i \in DOMAIN dispatch[a].contacts :
                   \A channel \in {"push", "sms"} :
                       Attempted(a, i, channel)
                           => Cardinality({n \in RecordsOf(a) :
                                  /\ n.contact = i
                                  /\ n.notification_type = channel}) = 1

\* C25: a notification row is marked delivered only if a delivery to that
\* contact on the channel of the row succeeded (for a row of type push: the
\* push or the live event); a contact whose attempts all failed, or that had
\* no attempt, has no delivered row.
C25_DeliveredMeansSucceeded ==
    \A n \in sos_notifications :
        n.is_delivered
            => \/ Attempt(n.sos_alert_id, n.contact, n.notification_type, "ok")
                      \in attempts
               \/ /\ n.notification_type = "push"
                  /\ Attempt(n.sos_alert_id, n.contact, "live", "ok") \in attempts

\* C26: on both trigger paths the 'sos_received' event is emitted for
\* exactly the contacts whose user is in the registry when the dispatch
\* starts.
C26_LivePushOnEveryPath ==
    \A a \in DOMAIN dispatch :
        \A i \in DOMAIN dispatch[a].contacts :
            i \in dispatch[a].present
                <=> Attempt(a, i, "live", "ok") \in attempts

\* the task of contact j of dispatch a can take its next step
CanProceed(a, j) ==
    ENABLED \/ \E o \in PushOutcomes :
                  RestPushStage(a, j, o) \/ SocketPushStage(a, j, o)
            \/ \E o \in SmsOutcomes :
                  RestSmsStage(a, j, o) \/ SocketSmsStage(a, j, o)

\* C27: on both paths, when the task of one contact of a dispatch has
\* failed, the task of every other contact of that dispatch still goes its
\* own way: while unfinished it can proceed, it fails only by a failed
\* attempt of its own, and when it completes its SMS was attempted and its
\* notification row is written.
C27_FailureOfOneContactIsIsolated ==
    \A a \in DOMAIN dispatch :
        \A i \in DOMAIN dispatch[a].tasks, j \in DOMAIN dispatch[a].tasks :
            (i # j /\ dispatch[a].tasks[i].pc = "rejected")
                => LET pc == dispatch[a].tasks[j].pc IN
                   /\ pc \in {"push", "sms"} => CanProceed(a, j)
                   /\ pc = "rejected"
                         => \E channel \in {"push", "sms"} :
                                Attempt(a, j, channel, "fail") \in attempts
                   /\ pc = "fulfilled"
                         => /\ Attempted(a, j, "sms")
                            /\ \E n \in RecordsOf(a) : n.contact = j

\* a socket dispatch that was answered with 'error' because the task of
\* contact 1 failed, while contact 2 got its SMS and its row
C27_Witness ==
    /\ 1 \in DOMAIN dispatch
    /\ dispatch[1].path = "socket"
    /\ Len(dispatch[1].tasks) = 2
    /\ dispatch[1].tasks[1].pc = "rejected"
    /\ dispatch[1].tasks[2].pc = "fulfilled"
    /\ dispatch[1].answer.kind = "error"
    /\ Attempt(1, 2, "sms", "ok") \in attempts
    /\ \E n \in RecordsOf(1) : n.contact = 2

\* C28: an alert row is created with status active, and the status of a row
\* either stays as it is or moves from active to resolved or false_alarm.
C28_StatusMovesOneWay ==
    [][\A id \in DOMAIN sos_alerts' :
          IF id \in DOMAIN sos_alerts
          THEN \/ sos_alerts'[id].status = sos_alerts[id].status
               \/ /\ sos_alerts[id].status = "active"
                  /\ sos_alerts'[id].status \in {"resolved", "false_alarm"}
          ELSE sos_alerts'[id].status = "active"]_vars

\* an alert that was resolved a second time, at a later time, and is still
\* resolved
C28_Witness ==
    /\ 1 \in DOMAIN sos_alerts
    /\ sos_alerts[1].status = "resolved"
    /\ sos_alerts[1].resolved_at > 1

\* C29: a resolve by the owner of an existing alert stores the status
\* resolved and is answered ok, whatever the outcome of the resolution
\* pushes.
C29_ResolveAnswersOk ==
    [][\A u \in Users, id \in AlertIds :
          (id \in DOMAIN sos_alerts /\ sos_alerts[id].user_id = u
               /\ ResolveAlert(u, id))
              => /\ sos_alerts'[id].status = "resolved"
                 /\ reply' = [op |-> "resolve", status |-> 200,
                              error |-> "none"]]_vars

\* C30: a resolve by the owner sends at most one resolution push to each
\* user and none to a user without a token.
C30_OnePushPerRecipient ==
    [][\A u \in Users, id \in AlertIds :
          (id \in DOMAIN sos_alerts /\ sos_alerts[id].user_id = u
               /\ ResolveAlert(u, id))
              => \A v \in Users :
                     /\ resolutionPushes'[v] <= resolutionPushes[v] + 1
                     /\ ~fcm_token[v]
                           => resolutionPushes'[v] = resolutionPushes[v]]_vars

\* C31: a lookup of t's location by r is permitted when r = t or when r and
\* t share a family, and it is not permitted when r and t are distinct
\* users with no accepted connection (a pending one does not count), no
\* common family and no enabled permission from t to r.
C31_CanViewBySelfOrFamily ==
    [][\A r \in Users, t \in Users :
          GetUserLocation(r, t)
              => /\ (r = t \/ SharedFamily(r, t)) => reply'.status \in {200, 404}
                 /\ (r # t /\ ~AcceptedConnection(r, t) /\ ~SharedFamily(r, t)
                        /\ EnabledPermissions(t, r) = {})
                       => reply'.status \notin {200, 404}]_vars

\* the push of update n to viewer v was lost / reached the viewer
Lost(n, v) == \E e \in location_updated : e.location = n /\ e.to = v /\ ~e.delivered
Received(n, v) == \E e \in location_updated : e.location = n /\ e.to = v /\ e.delivered

\* C32: when a location update of s is processed and the push to one viewer
\* in the registry with an enabled permission fails (the connection the
\* registry names for that viewer is closed), every other such viewer whose
\* connection is open still receives the update, and an event is sent for
\* every such viewer: the fan-out runs to its end.
C32_FailedPushIsIsolated ==
    [][\A s \in Users :
          Updated(s) =>
              \A v \in Users :
                  (EnabledPermissions(s, v) # {} /\ activeUsers[v] # NULL)
                      => /\ \E e \in location_updated' :
                               e.location = Len(user_locations') /\ e.to = v
                         /\ activeUsers[v] \in connected
                               => \E e \in location_updated' :
                                     /\ e.location = Len(user_locations')
                                     /\ e.to = v /\ e.delivered]_vars

C32_Witness ==
    /\ 1 \in DOMAIN user_locations
    /\ user_locations[1].user_id = "u1"
    /\ Lost(1, "u2")
    /\ Received(1, "u3")

\* C33: a location_update event received on a connection that joined as
\* user u is saved and pushed only as a sample of u: when the only open
\* connection has joined as a user and an update is processed, the saved
\* row and every event pushed for it carry that user's id.
C33_UpdateOnlyAsJoinedUser ==
    [][\A s \in Sockets, u \in Users, lat \in LatInputs, lon \in LonInputs :
          (connected = {s} /\ socketUserId[s] # NULL
               /\ LocationUpdate(s, u, lat, lon) /\ Updated(u))
              => u = socketUserId[s]]_vars

\* C34: a REST trigger that carries both coordinates, also when one of them
\* is exactly 0, is not rejected with 'Location coordinates required': that
\* rejection happens only when a coordinate is missing.
C34_ZeroIsACoordinate ==
    [][\A u \in Users, lat \in LatInputs, lon \in LonInputs :
          (RestTrigger(u, lat, lon) /\ lat # <<>> /\ lon # <<>>)
              => ~(reply'.op = "trigger" /\ reply'.status = 400
                     /\ reply'.error = "Location coordinates required")]_vars

\* C35: whatever the order of join and disconnect events of different
\* connections, the registry holds at most one handle per user in every
\* reachable state, and an event leaves the entry of every user other than
\* the one it is about unchanged: a join as u changes only the entry of u,
\* a disconnect only the entry of the user the connection joined as.
C35_OneHandleAndFrame ==
    /\ [](\A u \in Users : activeUsers[u] \in Sockets \cup {NULL})
    /\ [][(\A s \in Sockets, u \in Users :
               Join(s, u) => \A w \in Users \ {u} :
                                 activeUsers'[w] = activeUsers[w])
           /\ (\A s \in Sockets :
                  Disconnect(s) => \A w \in Users \ {socketUserId[s]} :
                                       activeUsers'[w] = activeUsers[w])]_vars

\* s1 joined as u2, s2 joined as u1, and s1 has disconnected: the events of
\* s1 left the entry of u1, which names s2, alone
C35_Witness ==
    /\ connected = {"s2"}
    /\ socketUserId["s1"] = "u2"
    /\ socketUserId["s2"] = "u1"
    /\ activeUsers["u1"] = "s2"
    /\ activeUsers["u2"] = NULL

\* C36: when the insert of a location sample fails (a coordinate is
\* missing), no row is saved, no location_updated event is pushed to any
\* viewer for that sample, and the sender is sent the 'error' event
\* 'Failed to update location'.
C36_FailedInsertPushesNothing ==
    [][\A s \in Sockets, u \in Users, lat \in LatInputs, lon \in LonInputs :
          (LocationUpdate(s, u, lat, lon) /\ (lat = <<>> \/ lon = <<>>))
              => /\ location_updated' = location_updated
                 /\ user_locations' = user_locations
                 /\ reply' = [op |-> "location_update", status |-> 0,
                              error |-> "Failed to update location"]]_vars

\* an update failed while u2, a viewer of u1 by an enabled permission, was
\* in the registry on an open connection, and nothing was pushed
C36_Witness ==
    /\ reply = [op |-> "location_update", status |-> 0,
                error |-> "Failed to update location"]
    /\ user_locations = <<>>
    /\ location_updated = {}
    /\ "u2" \in LocationViewers("u1")
    /\ activeUsers["u2"] \in connected

\* C37: one confirmed SOS press of the mobile client (at a location whose
\* coordinates are not 0) creates exactly one alert, and the press makes at
\* most one SMS attempt per emergency contact, also when
\* the client has a connected socket and sends both the 'sos_alert' event
\* and the REST call.
C37_OnePressOneAlert ==
    /\ [][\A s \in Sockets, u \in Users, lat \in LatInputs, lon \in LonInputs :
              (TriggerSOS(s, u, lat, lon) /\ ~Falsy(lat) /\ ~Falsy(lon))
                  => Len(sos_alerts') = Len(sos_alerts) + 1]_vars
    /\ [](\A i \in ContactIds :
              Cardinality({a \in DOMAIN dispatch : Attempted(a, i, "sms")}) <= 1)

\* C38: in every reachable state at most one user_connections row exists
\* for any unordered pair of users, also when a request from a to b and a
\* request from b to a are processed concurrently, so that the single-row
\* connection lookup of the permission check never sees two rows for a pair.
C38_OneRowPerPair ==
    \A a \in Users, b \in Users : Cardinality(Between(a, b)) <= 1

====
